---- MODULE Spec2Model ----
(***************************************************************************)
(* Quick-Share backend (src/backend/main.py): a code-addressed ephemeral   *)
(* store kept in one upload directory.  File names, codes and contents are *)
(* sequences of one-character strings, so that startswith, endswith,       *)
(* upper, splitext, basename and the line-ending replacement are computed  *)
(* as the code computes them.  The file system is POSIX (case-sensitive    *)
(* names, os.remove refuses directories).                                  *)
(***************************************************************************)
EXTENDS Integers, Sequences, FiniteSets, TLC

VARIABLES fs, now, ticks, created, last, sweep, req, gen

vars == <<fs, now, ticks, created, last, sweep, req, gen>>

-----------------------------------------------------------------------------
(* Bounds of the model *)

MaxTicks == 2          \* number of clock advances in a behaviour
MaxAttempts == 2       \* failed draws of generate_unique_code that are counted

(* Program constants *)

CODE_LENGTH == 6
EXPIRATION_SECONDS == 12 * 60 * 60

-----------------------------------------------------------------------------
(* Characters and strings *)

Alphabet == {"A", "B"}

Upper(ch) == CASE ch = "a" -> "A" [] ch = "b" -> "B" [] OTHER -> ch

UpperStr(s) == [i \in 1..Len(s) |-> Upper(s[i])]

StartsWith(s, p) == Len(p) <= Len(s) /\ SubSeq(s, 1, Len(p)) = p

EndsWith(s, p) ==
    Len(p) <= Len(s) /\ SubSeq(s, Len(s) - Len(p) + 1, Len(s)) = p

TxtExt == <<".", "t", "x", "t">>

\* str.rfind: the last index of ch in s, 0 when absent
RFind(s, ch) ==
    LET hits == {i \in 1..Len(s) : s[i] = ch}
    IN  IF hits = {} THEN 0 ELSE CHOOSE i \in hits : \A j \in hits : j <= i

\* os.path.splitext(p)[1]
SplitExt(p) ==
    LET sepIndex == RFind(p, "/")
        dotIndex == RFind(p, ".")
    IN  IF /\ dotIndex > sepIndex
           /\ \E k \in (sepIndex + 1)..(dotIndex - 1) : p[k] # "."
        THEN SubSeq(p, dotIndex, Len(p))
        ELSE <<>>

\* os.path.basename(p)
Basename(p) == SubSeq(p, RFind(p, "/") + 1, Len(p))

\* str.replace('\r\n', '\n')
RECURSIVE ReplaceCRLF(_)
ReplaceCRLF(s) ==
    IF s = <<>> THEN <<>>
    ELSE IF Len(s) >= 2 /\ s[1] = "CR" /\ s[2] = "LF"
         THEN <<"LF">> \o ReplaceCRLF(SubSeq(s, 3, Len(s)))
         ELSE <<s[1]>> \o ReplaceCRLF(Tail(s))

\* str.replace('\r', '\n')
ReplaceCR(s) == [i \in 1..Len(s) |-> IF s[i] = "CR" THEN "LF" ELSE s[i]]

\* the two replacements in the other order
NormalizeSwapped(s) == ReplaceCRLF(ReplaceCR(s))

\* text.replace('\r\n', '\n').replace('\r', '\n')
NormalizeContent(s) == ReplaceCR(ReplaceCRLF(s))

\* a byte sequence that is valid UTF-8 ("FF" stands for the byte 0xFF)
Utf8Valid(data) == \A i \in 1..Len(data) : data[i] # "FF"

\* f.read() of a file opened in text mode: universal newlines
ReadText(data) == ReplaceCR(ReplaceCRLF(data))

\* decoding with errors="ignore": undecodable bytes are dropped
RECURSIVE IgnoreErrors(_)
IgnoreErrors(data) ==
    IF data = <<>> THEN <<>>
    ELSE IF data[1] = "FF" THEN IgnoreErrors(Tail(data))
         ELSE <<data[1]>> \o IgnoreErrors(Tail(data))

\* html.escape
HtmlEscape(s) ==
    [i \in 1..Len(s) |-> CASE s[i] = "<" -> "&lt;"
                           [] s[i] = ">" -> "&gt;"
                           [] s[i] = "&" -> "&amp;"
                           [] OTHER -> s[i]]

-----------------------------------------------------------------------------
(* The upload directory: a function from top-level names to nodes *)

NoMembers == [m \in {} |-> <<>>]

FileNode(data, t) ==
    [isdir |-> FALSE, data |-> data, members |-> NoMembers, mtime |-> t]

DirNode(members, t) ==
    [isdir |-> TRUE, data |-> <<>>, members |-> members, mtime |-> t]

\* os.listdir(UPLOAD_DIRECTORY)
ListDir(f) == DOMAIN f

\* open(path, "w"/"wb") and write: creates or replaces the file at name
WriteFile(f, name, data, t) ==
    [n \in DOMAIN f \cup {name} |-> IF n = name THEN FileNode(data, t) ELSE f[n]]

\* os.makedirs(path, exist_ok=True)
MakeDirs(f, name, t) ==
    IF name \in DOMAIN f THEN f
    ELSE [n \in DOMAIN f \cup {name} |-> IF n = name THEN DirNode(NoMembers, t) ELSE f[n]]

\* open(folder/member, "wb") and write, inside the directory at name
WriteMember(f, name, member, data, t) ==
    LET old == f[name].members
        new == [m \in DOMAIN old \cup {member} |-> IF m = member THEN data ELSE old[m]]
    IN  [f EXCEPT ![name] =
            DirNode(new, IF member \in DOMAIN old THEN f[name].mtime ELSE t)]

\* the directory without the entry at name
Unlink(f, name) == [n \in DOMAIN f \ {name} |-> f[n]]

-----------------------------------------------------------------------------
(* Inputs of the requests *)

\* outcomes of random.choices(string.ascii_uppercase, k=CODE_LENGTH)
DrawnCodes ==
    {c \in [1..CODE_LENGTH -> Alphabet] : \A i \in 1..(CODE_LENGTH - 1) : c[i] = "A"}

\* letter-case variants of a string over the alphabet
Lower(ch) == CASE ch = "A" -> "a" [] ch = "B" -> "b" [] OTHER -> ch

LowerStr(s) == [i \in 1..Len(s) |-> Lower(s[i])]

\* the code path parameters the requests are tried with
LookupInputs ==
    DrawnCodes \cup {LowerStr(c) : c \in DrawnCodes}
               \cup {SubSeq(c, 1, CODE_LENGTH - 1) : c \in DrawnCodes}

Texts == { <<>>, <<"h", "CR", "LF">>, <<"h", "CR">> }

Blobs == { <<"<">>, <<"FF">> }

Filenames == { <<>>, <<"n", ".", "t", "x", "t">>, <<"n", ".", "b">> }

Extensions == {SplitExt(n) : n \in Filenames}

\* the (text_content, file) pairs create_upload is tried with
CreateInputs ==
    {[text_content |-> t, filename |-> <<>>, data |-> <<>>] : t \in Texts}
    \cup {[text_content |-> <<>>, filename |-> <<"n", ".", "t", "x", "t">>,
           data |-> d] : d \in Blobs}
    \cup {[text_content |-> <<"h", "CR">>, filename |-> <<"n", ".", "b">>,
           data |-> <<"<">>]}

\* the files upload_multiple is tried with: one named a, another of the
\* same name, one under a client-side path, one without a name
FileA == [filename |-> <<"a">>, data |-> <<"<">>]
FileA2 == [filename |-> <<"a">>, data |-> <<"FF">>]
FileB == [filename |-> <<"d", "/", "b">>, data |-> <<"<">>]
Unnamed == [filename |-> <<>>, data |-> <<"<">>]

Batches ==
    { <<>>, <<Unnamed>>, <<FileA>>, <<FileA, Unnamed>>, <<FileA, FileA2>>,
      <<FileA, FileB>> }

MemberNames == {Basename(FileA.filename), Basename(FileB.filename)}

-----------------------------------------------------------------------------
(* Responses *)

Resp(status, type, code, content, filename, files, saved) ==
    [status |-> status, type |-> type, code |-> code, content |-> content,
     filename |-> filename, files |-> files, saved |-> saved]

Fail(status) == Resp(status, "error", <<>>, <<>>, <<>>, {}, <<>>)

Ok(type, code, content, filename, files, saved) ==
    Resp(200, type, code, content, filename, files, saved)

NoResp == Resp(0, "none", <<>>, <<>>, <<>>, {}, <<>>)

\* what a handler does: the directory afterwards, the response, and (for
\* the bookkeeping of the entries) the stored name it created or rewrote
Outcome(f, resp, name) == [fs |-> f, resp |-> resp, name |-> name]

-----------------------------------------------------------------------------
(* generate_unique_code *)

\* a check for the exact name instead of the prefix
CodeInUseExact(f, code) == code \in ListDir(f)

CodeInUse(f, code) == \E filename \in ListDir(f) : StartsWith(filename, code)

\* a loop that returns its first draw
FirstDraw(f) == DrawnCodes

\* the codes the retry loop can return: drawn and not found in the directory
FreeCodes(f) == {code \in DrawnCodes : ~CodeInUse(f, code)}

-----------------------------------------------------------------------------
(* create_upload *)

CreateUploadRejects(text_content, filename) == text_content = <<>> /\ filename = <<>>

StoredName(code, filename) == code \o SplitExt(filename)

create_upload(f, text_content, filename, data, code, t) ==
    IF filename # <<>>
    THEN Outcome(WriteFile(f, StoredName(code, filename), data, t),
                 Ok("message", code, <<>>, <<>>, {}, <<>>),
                 StoredName(code, filename))
    ELSE Outcome(WriteFile(f, code \o TxtExt, NormalizeContent(text_content), t),
                 Ok("message", code, <<>>, <<>>, {}, <<>>),
                 code \o TxtExt)

-----------------------------------------------------------------------------
(* upload_multiple *)

\* the loop over files: [fs, saved] after saving the inputs files[i..]
RECURSIVE SaveLoop(_, _, _, _, _, _)
SaveLoop(f, code, files, i, saved, t) ==
    IF i > Len(files) THEN [fs |-> f, saved |-> saved]
    ELSE IF files[i].filename = <<>>
         THEN SaveLoop(f, code, files, i + 1, saved, t)
         ELSE LET safe_name == Basename(files[i].filename)
              IN  SaveLoop(WriteMember(f, code, safe_name, files[i].data, t),
                           code, files, i + 1, Append(saved, safe_name), t)

upload_multiple(f, files, code, t) ==
    LET r == SaveLoop(MakeDirs(f, code, t), code, files, 1, <<>>, t)
    IN  IF r.saved = <<>>
        THEN Outcome(r.fs, Fail(400), <<>>)
        ELSE Outcome(r.fs, Ok("message", code, <<>>, <<>>, {}, r.saved), code)

-----------------------------------------------------------------------------
(* update_text *)

update_text(f, code, content, t) ==
    LET filename == UpperStr(code) \o TxtExt
    IN  IF filename \notin DOMAIN f
        THEN Outcome(f, Fail(404), <<>>)
        ELSE Outcome(WriteFile(f, filename, NormalizeContent(content), t),
                     Ok("message", <<>>, <<>>, <<>>, {}, <<>>),
                     filename)

-----------------------------------------------------------------------------
(* find_file_by_code.  os.listdir returns the names in arbitrary order, so *)
(* "the first name that starts with the code" is any such name: the        *)
(* handler's possible responses form a set.                                *)

PrefixMatches(f, code) == {filename \in ListDir(f) : StartsWith(filename, code)}

IsDir(f, name) == name \in DOMAIN f /\ f[name].isdir

FindSingle(f, found_filename) ==
    IF /\ EndsWith(found_filename, TxtExt)
       /\ ~f[found_filename].isdir
       /\ Utf8Valid(f[found_filename].data)
    THEN Ok("text", <<>>, ReadText(f[found_filename].data), found_filename, {}, <<>>)
    ELSE Ok("file", <<>>, <<>>, found_filename, {}, <<>>)

find_file_by_code(f, c) ==
    LET code == UpperStr(c)
    IN  IF IsDir(f, code)
        THEN IF DOMAIN f[code].members = {}
             THEN {Fail(404)}
             ELSE {Ok("multiple", code, <<>>, <<>>, DOMAIN f[code].members, <<>>)}
        ELSE IF PrefixMatches(f, code) = {}
             THEN {Fail(404)}
             ELSE {FindSingle(f, n) : n \in PrefixMatches(f, code)}

-----------------------------------------------------------------------------
(* view_shared_content: the page is recorded by what it shows *)

ViewSingle(f, found_filename) ==
    IF EndsWith(found_filename, TxtExt)
    THEN IF f[found_filename].isdir
         THEN Fail(500)
         ELSE Ok("text", <<>>, HtmlEscape(ReadText(IgnoreErrors(f[found_filename].data))),
                 found_filename, {}, <<>>)
    ELSE Ok("file", <<>>, <<>>, found_filename, {}, <<>>)

view_shared_content(f, c) ==
    LET code == UpperStr(c)
    IN  IF IsDir(f, code)
        THEN IF DOMAIN f[code].members = {}
             THEN {Fail(404)}
             ELSE {Ok("multiple", code, <<>>, <<>>, DOMAIN f[code].members, <<>>)}
        ELSE IF PrefixMatches(f, code) = {}
             THEN {Fail(404)}
             ELSE {ViewSingle(f, n) : n \in PrefixMatches(f, code)}

-----------------------------------------------------------------------------
(* get_shared_content and get_file_from_folder *)

get_shared_content(f, file_id) ==
    IF file_id \notin DOMAIN f
    THEN Fail(404)
    ELSE IF f[file_id].isdir
         THEN Fail(500)
         ELSE Ok("bytes", <<>>, f[file_id].data, <<>>, {}, <<>>)

get_file_from_folder(f, code, filename) ==
    IF IsDir(f, code) /\ filename \in DOMAIN f[code].members
    THEN Ok("bytes", <<>>, f[code].members[filename], filename, {}, <<>>)
    ELSE Fail(404)

-----------------------------------------------------------------------------
(* cleanup_old_files *)

\* the outcome of the loop body for one name: "deleted", "kept",
\* "missing" (FileNotFoundError) or "error" (any other exception)
ExamineEntryGe(f, filename, current_time, fault) ==
    IF filename \notin DOMAIN f THEN "missing"
    ELSE IF fault THEN "error"
    ELSE IF current_time - f[filename].mtime >= EXPIRATION_SECONDS
         THEN IF f[filename].isdir THEN "error" ELSE "deleted"
         ELSE "kept"

ExamineEntry(f, filename, current_time, fault) ==
    IF filename \notin DOMAIN f THEN "missing"
    ELSE IF fault THEN "error"
    ELSE IF current_time - f[filename].mtime > EXPIRATION_SECONDS
         THEN IF f[filename].isdir THEN "error" ELSE "deleted"
         ELSE "kept"

\* the directory after the loop body for one name
CleanupEntry(f, filename, current_time, fault) ==
    IF ExamineEntry(f, filename, current_time, fault) = "deleted"
    THEN Unlink(f, filename)
    ELSE f

\* a loop that an exception in the body leaves
LoopAborts(outcome) == outcome \notin {"missing", "error"}

\* whether the loop goes on to the next name after the body ended that way
LoopContinues(outcome) == TRUE

\* one whole sweep with nothing running beside it
RECURSIVE CleanupLoop(_, _, _)
CleanupLoop(f, names, current_time) ==
    IF names = {} THEN f
    ELSE LET filename == CHOOSE n \in names : TRUE
         IN  IF LoopContinues(ExamineEntry(f, filename, current_time, FALSE))
             THEN CleanupLoop(CleanupEntry(f, filename, current_time, FALSE),
                              names \ {filename}, current_time)
             ELSE CleanupEntry(f, filename, current_time, FALSE)

cleanup_old_files(f, current_time) == CleanupLoop(f, ListDir(f), current_time)

-----------------------------------------------------------------------------
(* State *)

\* fs       the upload directory
\* now      time.time(), in seconds
\* ticks    how many times the clock has advanced
\* created  bookkeeping, per stored name of a live entry: the kind of request
\*          that created it, when, and the time of its last update
\* last     the most recent request and its response (a write with its
\*          inputs, a read with its response only)
\* sweep    the position of a running cleanup_old_files: the names listed,
\*          those still to examine, and how the loop body ended for the
\*          others (with whether the name was then older than the lifetime,
\*          and whether it was the first name examined)
\* req      the requests in progress on the event loop: update_text
\*          requests received and not yet run, the update_text that is
\*          running, the uploads suspended at `await file.read()`, and
\*          (bookkeeping) how many update_text requests have returned
\*          since the last one was received with none in progress
\* gen      the position of the retry loop of generate_unique_code

EmptyDir == [n \in {} |-> FileNode(<<>>, 0)]

NoEntries == [n \in {} |-> [kind |-> "none", born |-> 0, written |-> 0]]

Request(op, code, text, filename, data, batch, resp) ==
    [op |-> op, code |-> code, text |-> text, filename |-> filename,
     data |-> data, batch |-> batch, resp |-> resp]

NoOutcomes == [n \in {} |-> [result |-> "none", expired |-> FALSE, first |-> FALSE]]

IdleSweep ==
    [pc |-> "idle", current_time |-> 0, listed |-> {}, todo |-> {},
     outcomes |-> NoOutcomes]

IdleUpdate == [pc |-> "idle", code |-> <<>>, name |-> <<>>, content |-> <<>>]

NoRequests == [waiting |-> {}, upd |-> IdleUpdate, susp |-> {}, burst |-> 0]

IdleGen == [pc |-> "idle", code |-> <<>>, attempts |-> 0]

Restrict(g, S) == [n \in DOMAIN g \cap S |-> g[n]]

\* an entry was created under name at time t
Record(g, name, kind, t) ==
    [n \in DOMAIN g \cup {name} |->
        IF n = name THEN [kind |-> kind, born |-> t, written |-> t] ELSE g[n]]

\* the entry under name was rewritten at time t
Rewritten(g, name, t) ==
    [n \in DOMAIN g |-> IF n = name THEN [g[n] EXCEPT !.written = t] ELSE g[n]]

Init ==
    /\ fs = EmptyDir
    /\ now = 0
    /\ ticks = 0
    /\ created = NoEntries
    /\ last = Request("init", <<>>, <<>>, <<>>, <<>>, <<>>, NoResp)
    /\ sweep = IdleSweep
    /\ req = NoRequests
    /\ gen = IdleGen

-----------------------------------------------------------------------------
(* Requests, each handled from start to end *)

CreateUpload ==
    \E in \in CreateInputs :
      LET text_content == in.text_content
          filename == in.filename
          data == in.data
      IN
        /\ IF CreateUploadRejects(text_content, filename)
           THEN /\ last' = Request("create_upload", <<>>, text_content, filename,
                                   data, <<>>, Fail(400))
                /\ UNCHANGED <<fs, created, req, gen>>
           ELSE \E code \in FreeCodes(fs) :
                    LET r == create_upload(fs, text_content, filename, data, code, now)
                    IN  /\ fs' = r.fs
                        /\ created' = Record(created, r.name,
                                             IF filename # <<>> THEN "file" ELSE "text",
                                             now)
                        /\ last' = Request("create_upload", code, text_content,
                                           filename, data, <<>>, r.resp)
        /\ UNCHANGED <<now, ticks, sweep, req, gen>>

UploadMultiple ==
    \E files \in Batches :
        /\ IF files = <<>>
           THEN /\ last' = Request("upload_multiple", <<>>, <<>>, <<>>, <<>>,
                                   files, Fail(400))
                /\ UNCHANGED <<fs, created, req, gen>>
           ELSE \E code \in FreeCodes(fs) :
                    LET r == upload_multiple(fs, files, code, now)
                    IN  /\ fs' = r.fs
                        /\ created' = IF r.resp.status = 200
                                      THEN Record(created, r.name, "multiple", now)
                                      ELSE created
                        /\ last' = Request("upload_multiple", code, <<>>, <<>>,
                                           <<>>, files, r.resp)
        /\ UNCHANGED <<now, ticks, sweep, req, gen>>

UpdateText ==
    \E code \in LookupInputs, content \in Texts :
        LET r == update_text(fs, code, content, now)
        IN  /\ fs' = r.fs
            /\ created' = IF r.resp.status = 200
                          THEN Rewritten(created, r.name, now)
                          ELSE created
            /\ last' = Request("update_text", code, content, <<>>, <<>>, <<>>, r.resp)
            /\ UNCHANGED <<now, ticks, sweep, req, gen>>

\* a read that sets the time of last modification of the file it reads
ReadTouches(f, name, t) ==
    IF name \in DOMAIN f THEN [f EXCEPT ![name].mtime = t] ELSE f

\* the directory after a handler listed it, tested names in it and read or
\* served the file at name (os.listdir, os.path.isdir, os.path.exists,
\* open(path, "r"), FileResponse): none of these writes
AfterRead(f, name, t) == f

FindFile ==
    \E code \in LookupInputs :
        \E resp \in find_file_by_code(fs, code) :
            /\ fs' = AfterRead(fs, resp.filename, now)
            /\ last' = Request("find_file", <<>>, <<>>, <<>>, <<>>, <<>>, resp)
            /\ UNCHANGED <<now, ticks, created, sweep, req, gen>>

View ==
    \E code \in LookupInputs :
        \E resp \in view_shared_content(fs, code) :
            /\ fs' = AfterRead(fs, resp.filename, now)
            /\ last' = Request("view", <<>>, <<>>, <<>>, <<>>, <<>>, resp)
            /\ UNCHANGED <<now, ticks, created, sweep, req, gen>>

GetShared ==
    \E code \in LookupInputs, ext \in Extensions :
        /\ fs' = AfterRead(fs, code \o ext, now)
        /\ last' = Request("get", <<>>, <<>>, <<>>, <<>>, <<>>,
                           get_shared_content(fs, code \o ext))
        /\ UNCHANGED <<now, ticks, created, sweep, req, gen>>

GetFromFolder ==
    \E code \in LookupInputs, filename \in MemberNames :
        /\ fs' = AfterRead(fs, code, now)
        /\ last' = Request("get_multiple", <<>>, <<>>, <<>>, <<>>, <<>>,
                           get_file_from_folder(fs, code, filename))
        /\ UNCHANGED <<now, ticks, created, sweep, req, gen>>

\* one run of the scheduled job with no request running beside it
Cleanup ==
    /\ fs' = cleanup_old_files(fs, now)
    /\ created' = Restrict(created, DOMAIN fs')
    /\ last' = Request("cleanup", <<>>, <<>>, <<>>, <<>>, <<>>, NoResp)
    /\ UNCHANGED <<now, ticks, sweep, req, gen>>

\* the clock advances by a second, except that its second advance is by the
\* lifetime, so that the ages at and just past the lifetime are met exactly
TickLength(i) == IF i = 2 THEN EXPIRATION_SECONDS ELSE 1

Tick ==
    /\ ticks < MaxTicks
    /\ now' = now + TickLength(ticks + 1)
    /\ ticks' = ticks + 1
    /\ last' = Request("tick", <<>>, <<>>, <<>>, <<>>, <<>>, NoResp)
    /\ UNCHANGED <<fs, created, sweep, req, gen>>

Next ==
    \/ CreateUpload
    \/ UploadMultiple
    \/ UpdateText
    \/ FindFile
    \/ View
    \/ GetShared
    \/ GetFromFolder
    \/ Cleanup
    \/ Tick

Spec == Init /\ [][Next]_vars

-----------------------------------------------------------------------------
(* cleanup_old_files one loop iteration at a time, with failures of the    *)
(* storage and another process removing names beside it.  The requests     *)
(* that fill the directory are taken between two sweeps here.              *)

SweepStart ==
    /\ sweep.pc = "idle"
    /\ sweep' = [pc |-> "running", current_time |-> now, listed |-> ListDir(fs),
                 todo |-> ListDir(fs), outcomes |-> NoOutcomes]
    /\ last' = Request("sweep_start", <<>>, <<>>, <<>>, <<>>, <<>>, NoResp)
    /\ UNCHANGED <<fs, now, ticks, created, req, gen>>

\* the loop body for one listed name; fault: getmtime or remove raises
SweepStep ==
    /\ sweep.pc = "running"
    /\ \E filename \in sweep.todo, fault \in BOOLEAN :
          LET outcome == ExamineEntry(fs, filename, sweep.current_time, fault)
              seen == [result |-> outcome,
                       expired |-> /\ filename \in DOMAIN fs
                                   /\ sweep.current_time - fs[filename].mtime
                                         > EXPIRATION_SECONDS,
                       first |-> sweep.outcomes = NoOutcomes]
          IN  /\ fs' = CleanupEntry(fs, filename, sweep.current_time, fault)
              /\ created' = Restrict(created, DOMAIN fs')
              /\ sweep' = [sweep EXCEPT
                              !.todo = @ \ {filename},
                              !.outcomes = [n \in DOMAIN @ \cup {filename} |->
                                              IF n = filename THEN seen ELSE @[n]],
                              !.pc = IF LoopContinues(outcome)
                                     THEN "running" ELSE "aborted"]
              /\ last' = Request("sweep_step", <<>>, <<>>, <<>>, <<>>, <<>>, NoResp)
    /\ UNCHANGED <<now, ticks, req, gen>>

\* the loop is over and the job returns
SweepEnd ==
    /\ sweep.pc = "running"
    /\ sweep.todo = {}
    /\ sweep' = IdleSweep
    /\ last' = Request("cleanup", <<>>, <<>>, <<>>, <<>>, <<>>, NoResp)
    /\ UNCHANGED <<fs, now, ticks, created, req, gen>>

\* something else working on the same directory removes a listed name
\* before this sweep reaches it
RemovedElsewhere ==
    /\ sweep.pc = "running"
    /\ \E filename \in sweep.todo \cap DOMAIN fs :
          /\ fs' = Unlink(fs, filename)
          /\ created' = Restrict(created, DOMAIN fs')
          /\ last' = Request("removed", <<>>, <<>>, <<>>, <<>>, <<>>, NoResp)
    /\ UNCHANGED <<now, ticks, sweep, req, gen>>

NextSweep ==
    \/ sweep.pc = "idle" /\ CreateUpload
    \/ sweep.pc = "idle" /\ UploadMultiple
    \/ sweep.pc = "idle" /\ Tick
    \/ SweepStart
    \/ SweepStep
    \/ SweepEnd
    \/ RemovedElsewhere

SpecSweep == Init /\ [][NextSweep]_vars

-----------------------------------------------------------------------------
(* The handlers on the event loop beside the sweep thread.  A handler runs *)
(* up to its next await before another handler runs: update_text has no    *)
(* await, create_upload and upload_multiple have one inside each           *)
(* `with open(...)`, after the file was created empty.  cleanup_old_files  *)
(* is a plain function, which the AsyncIOScheduler runs in a worker        *)
(* thread: its system calls interleave with those of a running handler.    *)
(* The clock advances while nothing is in progress.                        *)

\* an open that keeps what the file held
OpenKeeps(f, name, t) == IF name \in DOMAIN f THEN f ELSE WriteFile(f, name, <<>>, t)

\* open(path, "w"/"wb"): creates the file at name, or empties it
OpenTruncate(f, name, t) == WriteFile(f, name, <<>>, t)

\* the bytes of a file after data was written at its start
Overwrite(old, data) ==
    IF Len(old) > Len(data)
    THEN data \o SubSeq(old, Len(data) + 1, Len(old))
    ELSE data

\* buffer.write(data) and close on a file opened at name before: the data
\* lands at the start of that file; if the name was removed meanwhile it
\* lands in a file that has no name any more
WriteOpened(f, name, data, t) ==
    IF name \in DOMAIN f /\ ~f[name].isdir
    THEN WriteFile(f, name, Overwrite(f[name].data, data), t)
    ELSE f

\* the same for a member of the directory at name
WriteOpenedMember(f, name, member, data, t) ==
    IF IsDir(f, name) /\ member \in DOMAIN f[name].members
    THEN WriteMember(f, name, member, Overwrite(f[name].members[member], data), t)
    ELSE f

\* a comparison that takes the lifetime itself for too old
ExpiredGe(file_mod_time, current_time) ==
    current_time - file_mod_time >= EXPIRATION_SECONDS

\* (current_time - file_mod_time) > EXPIRATION_SECONDS
Expired(file_mod_time, current_time) ==
    current_time - file_mod_time > EXPIRATION_SECONDS

\* the requests tried here
ConcCode == [i \in 1..CODE_LENGTH |-> "A"]

ConcUpdates == {[code |-> ConcCode, content |-> t] : t \in { <<>>, <<"h", "CR">> }}

ConcCreateInputs ==
    { [text_content |-> <<"h", "CR">>, filename |-> <<>>, data |-> <<>>],
      [text_content |-> <<>>, filename |-> <<"n", ".", "t", "x", "t">>,
       data |-> <<"<">>] }

ConcBatches == { <<Unnamed>>, <<Unnamed, FileA>> }

\* an upload suspended at `await file.read()`: the code it was given, the
\* top-level name it stored, the member it has open (in a group), the
\* bytes it is about to write, the files still to save and those saved
Suspended(op, code, name, member, data, rest, saved) ==
    [op |-> op, code |-> code, name |-> name, member |-> member,
     data |-> data, rest |-> rest, saved |-> saved]

\* the files from the first one that has a name (`if not file.filename: continue`)
RECURSIVE SkipUnnamed(_)
SkipUnnamed(files) ==
    IF files = <<>> THEN <<>>
    ELSE IF files[1].filename = <<>> THEN SkipUnnamed(Tail(files))
    ELSE files

LoopFree == req.upd.pc = "idle"

\* create_upload up to its return (text) or to its await (file)
ConcCreate ==
    /\ LoopFree
    /\ \E in \in ConcCreateInputs, code \in FreeCodes(fs) :
        /\ ~CreateUploadRejects(in.text_content, in.filename)
        /\ IF in.filename # <<>>
           THEN LET name == StoredName(code, in.filename)
                IN  /\ fs' = OpenTruncate(fs, name, now)
                    /\ created' = Record(created, name, "file", now)
                    /\ req' = [req EXCEPT !.susp = @ \cup
                                 {Suspended("create_upload", code, name, <<>>,
                                            in.data, <<>>, <<>>)}]
                    /\ UNCHANGED last
           ELSE LET r == create_upload(fs, in.text_content, in.filename, in.data,
                                       code, now)
                IN  /\ fs' = r.fs
                    /\ created' = Record(created, r.name, "text", now)
                    /\ last' = Request("create_upload", code, in.text_content,
                                       in.filename, in.data, <<>>, r.resp)
                    /\ UNCHANGED req
    /\ UNCHANGED <<now, ticks, sweep, gen>>

\* create_upload from its await to its return
ConcCreateResume ==
    /\ LoopFree
    /\ \E r \in req.susp :
        /\ r.op = "create_upload"
        /\ fs' = WriteOpened(fs, r.name, r.data, now)
        /\ req' = [req EXCEPT !.susp = @ \ {r}]
        /\ last' = Request("create_upload", r.code, <<>>, r.name, r.data, <<>>,
                           Ok("message", r.code, <<>>, <<>>, {}, <<>>))
    /\ UNCHANGED <<now, ticks, created, sweep, gen>>

\* upload_multiple up to the await of its first named file, or to its
\* return when no file has a name
ConcGroup ==
    /\ LoopFree
    /\ \E files \in ConcBatches, code \in FreeCodes(fs) :
        LET todo == SkipUnnamed(files)
            folder == MakeDirs(fs, code, now)
        IN  IF todo = <<>>
            THEN /\ fs' = folder
                 /\ last' = Request("upload_multiple", code, <<>>, <<>>, <<>>,
                                    files, Fail(400))
                 /\ UNCHANGED <<created, req>>
            ELSE /\ fs' = WriteMember(folder, code, Basename(todo[1].filename),
                                      <<>>, now)
                 /\ created' = Record(created, code, "multiple", now)
                 /\ req' = [req EXCEPT !.susp = @ \cup
                              {Suspended("upload_multiple", code, code,
                                         Basename(todo[1].filename), todo[1].data,
                                         Tail(todo), <<>>)}]
                 /\ UNCHANGED last
    /\ UNCHANGED <<now, ticks, sweep, gen>>

\* upload_multiple from one await to the next, or to its return
ConcGroupResume ==
    /\ LoopFree
    /\ \E r \in req.susp :
        /\ r.op = "upload_multiple"
        /\ LET written == WriteOpenedMember(fs, r.name, r.member, r.data, now)
               saved == Append(r.saved, r.member)
               todo == SkipUnnamed(r.rest)
           IN  IF todo = <<>>
               THEN /\ fs' = written
                    /\ req' = [req EXCEPT !.susp = @ \ {r}]
                    /\ last' = Request("upload_multiple", r.code, <<>>, <<>>, <<>>,
                                       <<>>, Ok("message", r.code, <<>>, <<>>, {},
                                                saved))
               ELSE /\ fs' = WriteMember(written, r.name,
                                         Basename(todo[1].filename), <<>>, now)
                    /\ req' = [req EXCEPT !.susp = (@ \ {r}) \cup
                                 {Suspended("upload_multiple", r.code, r.name,
                                            Basename(todo[1].filename),
                                            todo[1].data, Tail(todo), saved)}]
                    /\ UNCHANGED last
    /\ UNCHANGED <<now, ticks, created, sweep, gen>>

\* one more update_text request has returned
Returned(n) == IF n < Cardinality(ConcUpdates) THEN n + 1 ELSE n

\* an update_text request is received, possibly while others are in progress
UpdateArrives ==
    /\ \E u \in ConcUpdates \ req.waiting :
          req' = [req EXCEPT
                    !.waiting = @ \cup {u},
                    !.burst = IF req.waiting = {} /\ LoopFree THEN 0 ELSE @]
    /\ UNCHANGED <<fs, now, ticks, created, last, sweep, gen>>

\* update_text up to `if not os.path.exists(file_path)`
UpdateCheck ==
    /\ LoopFree
    /\ \E u \in req.waiting :
        LET filename == UpperStr(u.code) \o TxtExt
        IN  IF filename \notin DOMAIN fs
            THEN /\ req' = [req EXCEPT !.waiting = @ \ {u},
                                         !.burst = Returned(@)]
                 /\ last' = Request("update_text", u.code, u.content, <<>>, <<>>,
                                    <<>>, Fail(404))
            ELSE /\ req' = [req EXCEPT
                              !.waiting = @ \ {u},
                              !.upd = [pc |-> "checked", code |-> u.code,
                                       name |-> filename, content |-> u.content]]
                 /\ UNCHANGED last
    /\ UNCHANGED <<fs, now, ticks, created, sweep, gen>>

\* update_text: `open(file_path, "w")`
UpdateOpen ==
    /\ req.upd.pc = "checked"
    /\ fs' = OpenTruncate(fs, req.upd.name, now)
    /\ created' = IF req.upd.name \in DOMAIN created
                  THEN Rewritten(created, req.upd.name, now)
                  ELSE Record(created, req.upd.name, "update", now)
    /\ req' = [req EXCEPT !.upd.pc = "opened"]
    /\ UNCHANGED <<now, ticks, last, sweep, gen>>

\* update_text: `f.write(normalized_content)`, the close and the return
UpdateWrite ==
    /\ req.upd.pc = "opened"
    /\ fs' = WriteOpened(fs, req.upd.name, NormalizeContent(req.upd.content), now)
    /\ req' = [req EXCEPT !.upd = IdleUpdate, !.burst = Returned(@)]
    /\ last' = Request("update_text", req.upd.code, req.upd.content, <<>>, <<>>,
                       <<>>, Ok("message", <<>>, <<>>, <<>>, {}, <<>>))
    /\ UNCHANGED <<now, ticks, created, sweep, gen>>

\* the sweep thread: `current_time = time.time()` and `os.listdir`
ThreadStart ==
    /\ sweep.pc = "idle"
    /\ sweep' = [pc |-> "running", current_time |-> now, listed |-> {},
                 todo |-> ListDir(fs), outcomes |-> NoOutcomes]
    /\ UNCHANGED <<fs, now, ticks, created, last, req, gen>>

\* what the loop body knows of the name it examined last: how it ended
\* ("read" while it is between getmtime and the comparison), the time
\* getmtime returned, and the time of last modification the file had when
\* it was removed
Examined(result, seen, found) == [result |-> result, seen |-> seen, found |-> found]

\* the sweep thread: `file_mod_time = os.path.getmtime(file_path)`
ThreadStat ==
    /\ sweep.pc = "running"
    /\ \E filename \in sweep.todo :
        LET outcome ==
              IF filename \in DOMAIN fs
              THEN Examined("read", fs[filename].mtime, fs[filename].mtime)
              ELSE Examined("missing", 0, 0)
        IN  sweep' = [sweep EXCEPT
                        !.pc = IF filename \in DOMAIN fs THEN "read" ELSE "running",
                        !.todo = @ \ {filename},
                        !.outcomes = [n \in {filename} |-> outcome]]
    /\ UNCHANGED <<fs, now, ticks, created, last, req, gen>>

\* the sweep thread: the comparison and `os.remove(file_path)`
ThreadRemove ==
    /\ sweep.pc = "read"
    /\ \E filename \in DOMAIN sweep.outcomes :
        /\ sweep.outcomes[filename].result = "read"
        /\ LET seen == sweep.outcomes[filename].seen
               outcome ==
                 IF ~Expired(seen, sweep.current_time) THEN Examined("kept", seen, seen)
                 ELSE IF filename \notin DOMAIN fs THEN Examined("missing", seen, seen)
                 ELSE IF fs[filename].isdir THEN Examined("error", seen, seen)
                 ELSE Examined("deleted", seen, fs[filename].mtime)
           IN  /\ fs' = IF outcome.result = "deleted" THEN Unlink(fs, filename) ELSE fs
               /\ created' = Restrict(created, DOMAIN fs')
               /\ sweep' = [sweep EXCEPT
                               !.pc = "running",
                               !.outcomes = [@ EXCEPT ![filename] = outcome]]
    /\ UNCHANGED <<now, ticks, last, req, gen>>

\* the sweep thread: the loop is over
ThreadEnd ==
    /\ sweep.pc = "running"
    /\ sweep.todo = {}
    /\ sweep' = IdleSweep
    /\ UNCHANGED <<fs, now, ticks, created, last, req, gen>>

Quiet == req = NoRequests /\ sweep.pc = "idle"

NextConc ==
    \/ ConcCreate
    \/ ConcCreateResume
    \/ ConcGroup
    \/ ConcGroupResume
    \/ UpdateArrives
    \/ UpdateCheck
    \/ UpdateOpen
    \/ UpdateWrite
    \/ ThreadStart
    \/ ThreadStat
    \/ ThreadRemove
    \/ ThreadEnd
    \/ Quiet /\ Tick

SpecConc == Init /\ [][NextConc]_vars

\* what the event loop and the worker thread do without waiting for a
\* client: a suspended upload is resumed when its read is over, a handler
\* that runs goes on to its return, the sweep goes on to its end
Progress ==
    \/ ConcCreateResume
    \/ ConcGroupResume
    \/ UpdateCheck
    \/ UpdateOpen
    \/ UpdateWrite
    \/ ThreadStat
    \/ ThreadRemove
    \/ ThreadEnd

SpecConcFair == SpecConc /\ WF_vars(Progress)

-----------------------------------------------------------------------------
(* generate_unique_code one iteration of its `while True` at a time, in    *)
(* create requests that are otherwise handled as before, with the reads    *)
(* between them.  The draws are fair: a code that can be drawn again and   *)
(* again is drawn at some time.                                            *)

\* a loop that stops retrying after some attempts
LoopEndsAfter(attempts) == attempts >= MaxAttempts

\* whether the loop stops without a code after that many failed attempts
LoopEnds(attempts) == FALSE

\* a create request has passed its checks and calls generate_unique_code
GenCall ==
    /\ gen.pc \in {"idle", "failed"}
    /\ gen' = [pc |-> "drawing", code |-> <<>>, attempts |-> 0]
    /\ UNCHANGED <<fs, now, ticks, created, last, sweep, req>>

\* one iteration: the draw, the scan of the directory, the return
GenDraw(code) ==
    /\ gen.pc = "drawing"
    /\ gen' = IF ~CodeInUse(fs, code)
              THEN [pc |-> "returned", code |-> code, attempts |-> gen.attempts]
              ELSE IF LoopEnds(gen.attempts + 1)
              THEN [pc |-> "failed", code |-> <<>>, attempts |-> gen.attempts]
              ELSE [gen EXCEPT !.attempts = IF @ < MaxAttempts THEN @ + 1 ELSE @]
    /\ UNCHANGED <<fs, now, ticks, created, last, sweep, req>>

\* create_upload from the return of generate_unique_code on
GenCreate ==
    /\ gen.pc = "returned"
    /\ \E in \in CreateInputs :
        /\ ~CreateUploadRejects(in.text_content, in.filename)
        /\ LET r == create_upload(fs, in.text_content, in.filename, in.data,
                                  gen.code, now)
           IN  /\ fs' = r.fs
               /\ created' = Record(created, r.name,
                                    IF in.filename # <<>> THEN "file" ELSE "text",
                                    now)
               /\ last' = Request("create_upload", gen.code, in.text_content,
                                  in.filename, in.data, <<>>, r.resp)
    /\ gen' = IdleGen
    /\ UNCHANGED <<now, ticks, sweep, req>>

\* upload_multiple from the return of generate_unique_code on
GenGroup ==
    /\ gen.pc = "returned"
    /\ \E files \in Batches \ {<<>>} :
        LET r == upload_multiple(fs, files, gen.code, now)
        IN  /\ fs' = r.fs
            /\ created' = IF r.resp.status = 200
                          THEN Record(created, r.name, "multiple", now)
                          ELSE created
            /\ last' = Request("upload_multiple", gen.code, <<>>, <<>>, <<>>,
                               files, r.resp)
    /\ gen' = IdleGen
    /\ UNCHANGED <<now, ticks, sweep, req>>

NoCall == gen.pc = "idle"

NextGen ==
    \/ GenCall
    \/ \E code \in DrawnCodes : GenDraw(code)
    \/ GenCreate
    \/ GenGroup
    \/ NoCall /\ FindFile
    \/ NoCall /\ View
    \/ NoCall /\ GetShared
    \/ NoCall /\ GetFromFolder
    \/ NoCall /\ Tick

SpecGen ==
    Init /\ [][NextGen]_vars /\ \A code \in DrawnCodes : WF_vars(GenDraw(code))

-----------------------------------------------------------------------------
(* Properties *)

CodeOf(name) == SubSeq(name, 1, CODE_LENGTH)

\* the stored names of the live entries whose code is c
LiveWithCode(c) == {n \in DOMAIN created : CodeOf(n) = c}

Creates == {"create_upload", "upload_multiple"}

\* C1: no two stored top-level names begin with the same code, and the code
\* a create request returns is the prefix of exactly one stored name.
C1_UniqueCodes ==
    /\ \A n1, n2 \in DOMAIN fs : CodeOf(n1) = CodeOf(n2) => n1 = n2
    /\ (last.op \in Creates /\ last.resp.status = 200)
          => Cardinality(PrefixMatches(fs, last.resp.code)) = 1

C1_Witness ==
    /\ last.op \in Creates
    /\ last.resp.status = 200
    /\ \E n1, n2 \in DOMAIN fs : fs[n1].isdir /\ ~fs[n2].isdir

\* C2: update_text succeeds only on a code whose live entry was created as
\* text; on any other code it answers 404 and changes nothing.
C2_UpdateOnlyText ==
    [][last'.op = "update_text" =>
          LET isText == \E n \in LiveWithCode(UpperStr(last'.code)) :
                            created[n].kind = "text"
          IN  /\ last'.resp.status = 200 => isText
              /\ ~isText => last'.resp.status = 404 /\ fs' = fs /\ created' = created
      ]_vars

\* C3: after a sweep no live entry of any kind is older than the lifetime.
C3_SweepRemovesExpired ==
    last.op = "cleanup" =>
        \A n \in DOMAIN created : now - fs[n].mtime <= EXPIRATION_SECONDS

Names(resp, n) ==
    IF resp.type = "multiple" THEN resp.code = n ELSE resp.filename = n

\* C5: resolve and view succeed only on the full code of a live entry, which
\* they return; on anything else (a proper prefix of a code) they answer 404.
C5_FullCodeOnly ==
    \A c \in LookupInputs :
        \A resp \in find_file_by_code(fs, c) \cup view_shared_content(fs, c) :
            /\ resp.status = 200 =>
                  \E n \in LiveWithCode(UpperStr(c)) : Names(resp, n)
            /\ LiveWithCode(UpperStr(c)) = {} => resp.status = 404

\* C6: resolve reports the kind under which each live entry was created.
C6_ResolveReportsKind ==
    \A n \in DOMAIN created :
        \A resp \in find_file_by_code(fs, CodeOf(n)) :
            CASE created[n].kind = "multiple" ->
                     /\ resp.type = "multiple"
                     /\ resp.files = DOMAIN fs[n].members
              [] created[n].kind = "text" ->
                     /\ resp.type = "text"
                     /\ resp.content = fs[n].data
              [] OTHER ->
                     /\ resp.type = "file"
                     /\ resp.filename = n
                     /\ resp.content = <<>>

\* C7: every operation that takes a code answers a letter-case variant of a
\* live entry's code as it answers the uppercase code.
C7_CaseInsensitive ==
    \A n \in DOMAIN created :
        LET code == CodeOf(n)
            variant == LowerStr(code)
        IN  /\ find_file_by_code(fs, variant) = find_file_by_code(fs, code)
            /\ view_shared_content(fs, variant) = view_shared_content(fs, code)
            /\ \A content \in Texts :
                  update_text(fs, variant, content, now)
                      = update_text(fs, code, content, now)
            /\ \A m \in MemberNames :
                  get_file_from_folder(fs, variant, m)
                      = get_file_from_folder(fs, code, m)
            /\ \A ext \in Extensions :
                  get_shared_content(fs, variant \o ext)
                      = get_shared_content(fs, code \o ext)

\* C8: upload_multiple stores exactly the inputs that have a filename, each
\* retrievable under that filename, and answers 400 when none has one.
C8_GroupIntegrity ==
    last.op = "upload_multiple" =>
        LET files == last.batch
            named == {i \in 1..Len(files) : files[i].filename # <<>>}
            code == last.code
        IN  IF named = {}
            THEN last.resp.status = 400
            ELSE /\ last.resp.status = 200
                 /\ DOMAIN fs[code].members = {files[i].filename : i \in named}
                 /\ \A i \in named :
                       LET got == get_file_from_folder(fs, code, files[i].filename)
                       IN  got.status = 200 /\ got.content = files[i].data
                 /\ {last.resp.saved[j] : j \in 1..Len(last.resp.saved)}
                       = DOMAIN fs[code].members

\* the text with every CRLF and every lone CR turned into LF, read off one
\* character at a time
RECURSIVE LineFeeds(_)
LineFeeds(s) ==
    IF s = <<>> THEN <<>>
    ELSE IF s[1] # "CR" THEN <<s[1]>> \o LineFeeds(Tail(s))
    ELSE IF Len(s) >= 2 /\ s[2] = "LF" THEN <<"LF">> \o LineFeeds(SubSeq(s, 3, Len(s)))
    ELSE <<"LF">> \o LineFeeds(Tail(s))

TextWritten ==
    /\ last.resp.status = 200
    /\ \/ last.op = "create_upload" /\ last.filename = <<>>
       \/ last.op = "update_text"

\* C10: after text T is written, resolving the code returns T with CRLF and
\* lone CR turned into LF; writing what was read, or the same text with other
\* line endings, leaves the stored content as it is.
C10_TextRoundTrip ==
    TextWritten =>
        LET name == UpperStr(last.code) \o TxtExt
        IN  /\ \A resp \in find_file_by_code(fs, last.code) :
                  /\ resp.type = "text"
                  /\ resp.content = LineFeeds(last.text)
                  /\ \A i \in 1..Len(resp.content) : resp.content[i] # "CR"
                  /\ update_text(fs, last.code, resp.content, now).fs = fs
            /\ \A other \in Texts :
                  LineFeeds(other) = LineFeeds(last.text)
                      => update_text(fs, last.code, other, now).fs = fs

\* a text with a lone CR was written over the same text stored with CRLF
C10_Witness ==
    /\ last.op = "update_text"
    /\ last.resp.status = 200
    /\ last.text = <<"h", "CR">>
    /\ fs[UpperStr(last.code) \o TxtExt].data = <<"h", "LF">>

Failed == {"missing", "error"}

\* C9: a failure on one listed name never ends the sweep: the job returns
\* normally with every listed name examined, each one that was seen older
\* than the lifetime and did not fail deleted, and none younger deleted.
C9_SweepSurvivesFailures ==
    /\ sweep.pc # "aborted"
    /\ sweep.todo = {} => DOMAIN sweep.outcomes = sweep.listed
    /\ \A n \in DOMAIN sweep.outcomes :
          LET seen == sweep.outcomes[n]
          IN  seen.result \notin Failed =>
                 (seen.result = "deleted" <=> seen.expired)

\* the end of a sweep in which one name failed and a name examined after it
\* was deleted
C9_Witness ==
    /\ sweep.pc = "running"
    /\ sweep.todo = {}
    /\ \E n1, n2 \in sweep.listed :
          /\ sweep.outcomes[n1].result \in Failed
          /\ sweep.outcomes[n2].result = "deleted"
          /\ sweep.outcomes[n1].first
          /\ ~sweep.outcomes[n2].first

\* the stored name update_text rewrote in the request that returned last
UpdatedName == UpperStr(last.code) \o TxtExt

\* the update_text requests received have all returned, the last of them
\* with success, and its text entry is there with no upload writing to it
UpdatesDone ==
    /\ LoopFree
    /\ req.waiting = {}
    /\ last.op = "update_text"
    /\ last.resp.status = 200
    /\ UpdatedName \in DOMAIN fs
    /\ \A r \in req.susp : r.name # UpdatedName

\* C11: once the update_text requests on a text code have all returned,
\* whether they were received one after the other or while another was
\* in progress, resolving the code gives exactly the normalized content of
\* the request that returned last, and nothing of the others.
C11_LastWriteWins ==
    UpdatesDone =>
        find_file_by_code(fs, last.code) =
            {Ok("text", <<>>, NormalizeContent(last.text), UpdatedName, {}, <<>>)}

\* two update_text requests were in progress together and have returned
C11_Witness == UpdatesDone /\ req.burst = 2

\* C12: an entry of any kind that is not updated is eventually purged.
\* With the reaper scheduled again and again, a sweep runs after the entry
\* has passed its lifetime; right after such a sweep, a code none of whose
\* stored names was modified within the lifetime resolves and views as
\* 404 and is free for generate_unique_code again.
C12_EventuallyPurged ==
    last.op = "cleanup" =>
        \A c \in DrawnCodes :
            (\A n \in PrefixMatches(fs, c) : Expired(fs[n].mtime, now)) =>
                /\ find_file_by_code(fs, c) = {Fail(404)}
                /\ view_shared_content(fs, c) = {Fail(404)}
                /\ c \in FreeCodes(fs)

\* C13: a read that runs while a write to the same code is in progress
\* sees the state before the write or the complete content after it.  A
\* handler that reads runs when the event loop is free: never inside
\* update_text, but while a create_upload that stores a file is suspended
\* at its await.  The code of that upload was free before, so the read
\* must find its stored name absent or find all the bytes of the file.
C13_ReadsNeverTorn ==
    LoopFree =>
        \A r \in req.susp :
            r.op = "create_upload" =>
                /\ get_shared_content(fs, r.name) \in
                      {Fail(404), Ok("bytes", <<>>, r.data, <<>>, {}, <<>>)}
                /\ \A resp \in find_file_by_code(fs, r.code) :
                      resp.type = "text" => resp.content = ReadText(r.data)

\* two uploads in progress hold one code
SameCodeHeld == \E r1, r2 \in req.susp : r1 # r2 /\ r1.code = r2.code

C15_DeletesOnReadTime ==
    [][\A n \in DOMAIN fs \ DOMAIN fs' :
          /\ sweep.pc = "read"
          /\ n \in DOMAIN sweep.outcomes
          /\ sweep.current_time - sweep.outcomes[n].seen > EXPIRATION_SECONDS
          /\ (sweep.current_time - fs[n].mtime <= EXPIRATION_SECONDS
                => fs[n].mtime > sweep.outcomes[n].seen)]_vars

\* update_text succeeded between the read and the delete step, and the
\* sweep has deleted the entry it had just rewritten
C15_Witness ==
    /\ last.op = "update_text"
    /\ last.resp.status = 200
    /\ \E n \in DOMAIN sweep.outcomes :
          /\ n = UpdatedName
          /\ sweep.outcomes[n].result = "deleted"
          /\ sweep.current_time - sweep.outcomes[n].found <= EXPIRATION_SECONDS

\* C16: update_text never brings an entry into existence.  No step of a
\* running update_text adds a stored name, and an update_text that finds
\* its name gone when it writes returns 404.
C16_UpdateNeverCreates ==
    [][(req.upd.pc # "idle" /\ req'.upd # req.upd) =>
          /\ DOMAIN fs' \subseteq DOMAIN fs
          /\ (req.upd.name \notin DOMAIN fs /\ req'.upd.pc = "idle")
                => last'.resp.status = 404]_vars

\* some code that can be drawn is the start of no stored name
SomeCodeFree ==
    \E c \in DrawnCodes : \A n \in ListDir(fs) : ~StartsWith(n, c)

\* C17: under fair draws generate_unique_code returns whenever some code
\* is the start of no stored name; it never ends without a code, however
\* many draws failed; and the code it returns has CODE_LENGTH letters of
\* the alphabet and is the start of no name stored when it returns.
C17_AllocationReturns ==
    /\ (gen.pc = "drawing" /\ SomeCodeFree) ~> (gen.pc = "returned")
    /\ [](gen.pc # "failed")
    /\ [](gen.pc = "returned" =>
            /\ Len(gen.code) = CODE_LENGTH
            /\ \A i \in 1..Len(gen.code) : gen.code[i] \in Alphabet
            /\ \A n \in ListDir(fs) : ~StartsWith(n, gen.code))

\* the loop has returned a code after as many failed draws as are counted
C17_Witness == gen.pc = "returned" /\ gen.attempts = MaxAttempts

ReadOps == {"find_file", "view", "get", "get_multiple"}

\* C18: the reads (find_file_by_code, view_shared_content,
\* get_shared_content, get_file_from_folder) and every step of
\* generate_unique_code leave the upload directory as it was: the names,
\* their contents and their times of last modification.
C18_ReadsChangeNothing ==
    [][(last'.op \in ReadOps \/ gen'.pc \in {"drawing", "returned"})
          => fs' = fs]_vars

\* a text entry stored before the current time was resolved, and its time
\* of last modification is still in the past
C18_Witness ==
    /\ last.op = "find_file"
    /\ last.resp.type = "text"
    /\ last.resp.filename \in DOMAIN fs
    /\ fs[last.resp.filename].mtime < now

\* C19: a code whose group directory holds no member is absent for every
\* operation: it resolves and views as 404, and generate_unique_code takes
\* the code for free.
C19_EmptyGroupAbsent ==
    \A c \in DrawnCodes :
        (IsDir(fs, c) /\ DOMAIN fs[c].members = {}) =>
            /\ find_file_by_code(fs, c) = {Fail(404)}
            /\ view_shared_content(fs, c) = {Fail(404)}
            /\ c \in FreeCodes(fs)

\* C20: a request that is declined with 400 or 404 leaves the upload
\* directory exactly as it was.
C20_DeclinedChangesNothing ==
    [][last'.resp.status \in {400, 404} => fs' = fs]_vars

====
